---- MODULE Spec2Model ----
(***************************************************************************)
(* Design-canvas controller of the t-shirt designer.                       *)
(*                                                                         *)
(* Three variants of the page are modelled:                                *)
(*   "controller"  src/src/pages/CustomDesign/CustomDesign.tsx (second     *)
(*                 copy, lines 731-1429) with the helpers of               *)
(*                 src/src/pages/CustomDesign/api.ts (second copy,         *)
(*                 lines 199-532);                                         *)
(*   "page"        src/src/pages/CustomDesign.tsx, the single-page         *)
(*                 variant with its own poll loop;                         *)
(*   "canvas"      src/src/pages/CustomDesign/CustomDesign.tsx (first      *)
(*                 copy, lines 1-729) with DesignService and the           *)
(*                 DraggableDesign component.                              *)
(* "service" stands for a caller of applyColorTransparency                 *)
(* (src/src/context/CartContext.tsx).                                      *)
(* Every await of the code is a suspension point: the handler up to its    *)
(* first await is one action, every continuation is one action.            *)
(* A handler reads the component state of the render it was created in;    *)
(* the values it captured are kept in the record of the call.              *)
(* retryCount is written by the poll loop and read by the render only; it  *)
(* is left out.  Scales are kept in percent, lengths in pixels.            *)
(* Spec is the controller and the page with remote processing, SpecHistory *)
(* the controller with its gallery and undo, SpecPoll the generation flow  *)
(* with a status endpoint that answers 'processing' without limit,         *)
(* SpecCanvas the canvas page with its modes, drag, crop and scale,        *)
(* SpecClamp the drag alone over drawn sizes and scales, SpecPlacement the *)
(* drag with the Scale slider and the Reset button, SpecRemote the remote  *)
(* processing of the controller and of the canvas page, SpecScale the      *)
(* writers of the controller's scale, SpecSampler the pixel reads of the   *)
(* colour-pick handlers ("sampler"), SpecTransparency the calls of         *)
(* applyColorTransparency, SpecApi the calls of loadPreviousDesigns and    *)
(* checkLocalServer of api.ts ("api"), and SpecCart the reducer of the     *)
(* cart ("cart").                                                          *)
(***************************************************************************)
EXTENDS Integers, Sequences, FiniteSets, TLC

\* ------------------------------------------------------------------ bounds
MaxLoops == 2        \* poll loops (prompts and retries) started in one run
MaxRemote == 2       \* background-removal / transparency requests issued
MaxProcessing == 1   \* 'processing' answers of the status endpoint per loop
MaxHistory == 2      \* history length up to which the gallery is used
MaxCalls == 3        \* calls of applyColorTransparency

\* ------------------------------------------------------- program constants
maxRetries == 30     \* api.ts pollDesignStatus
maxAttempts == 60    \* pages/CustomDesign.tsx pollDesignStatus
maxSize == 300       \* api.ts pollDesignStatus, largest displayed edge
MAX_RETRIES == 2     \* apiService, repetitions of a request

Variants == {"controller", "page"}

\* images: null, the image of job j, the blob URL created for request r
Null == <<>>
JobImage(j) == <<"job", j>>
BlobUrl(r) == <<"blob", r>>

\* error state: null, '' (set by handleRetry) or a message
NoError == "null"
Truthy(e) == e \notin {NoError, ""}

\* the design the server lists in GET /previous-designs
GalleryImage == <<"previous", 1>>

\* sizes (longest edge, px) of the generated images that are loaded
Dims == {200, 600}
\* values of the size slider (percent)
SliderScales == {150}
\* colours sampled by a click in pick mode; 0 is the initial '#000000'
PickColors == {1}
\* the box the design is dragged in (px)
ContainerRects == {[width |-> 600, height |-> 600]}

VARIABLES
    variant,          \* which page is mounted
    procLimit,        \* how often the status endpoint answers 'processing'
    mounted,          \* the page component is mounted
    isGenerating, error, isLoading, isPickingColor,
    designTexture, designHistory, designTransform,
    selectedColor, taskId, previousDesigns,  \* the gallery
    isLoadingHistory, \* GET /previous-designs is in flight
    gen,              \* the calls of handleGenerateDesign / pollDesignStatus
    nGen,             \* number of calls started
    remote,           \* remote-processing requests in flight
    nReq,             \* number of remote-processing requests issued
    replaced,         \* the images that a generation result or a gallery
                      \* choice has replaced and no undo has taken back
    undoFound,        \* the length of the history the last step found when
                      \* that step was handleUndo, -1 after any other step
    settled,          \* the answer the last step delivered to a remote-
                      \* processing handler, NoAnswer after any other step
    isCropping,       \* crop mode of the page
    isDragging, dragStart, designSize,   \* state of DraggableDesign
    containerRect,    \* size of the box DraggableDesign fills
    imgOnload,        \* the onload handler of the design <img> that has not
                      \* run yet, with the designTransform it captured
    created, revoked, \* blob URLs made by URL.createObjectURL and those
                      \* released by URL.revokeObjectURL
    currentObjectUrl, \* the ref of the canvas page
    tr,               \* the call of applyColorTransparency
    rejections,       \* the failures applyColorTransparency has rejected
                      \* with: pairs of failure kind and message
    sampling,         \* one reading of a pixel by a colour-pick handler:
                      \* its inputs and, once it has run, what it read
    loadCall,         \* the call of loadPreviousDesigns of api.ts: where it
                      \* stands and what it has passed to its two setters
    healthCall,       \* the call of checkLocalServer: where it stands, the
                      \* requests it has sent and what it has logged
    cart              \* the state of cartReducer

canvas == <<isCropping, isDragging, dragStart, designSize, containerRect,
            imgOnload>>

urls == <<created, revoked, currentObjectUrl>>

service == <<tr, rejections>>

api == <<loadCall, healthCall>>

vars == <<variant, procLimit, mounted, isGenerating, error, isLoading,
          isPickingColor, designTexture, designHistory, designTransform,
          selectedColor, taskId, previousDesigns,
          isLoadingHistory, gen, nGen, remote, nReq, replaced, undoFound,
          settled, canvas, urls, service, sampling, api, cart>>

image == <<designTexture, designHistory, designTransform>>

Loops == 1..MaxLoops

IdleLoop == [pc |-> "idle", job |-> 0, retries |-> 0, requests |-> 0,
             closure |-> Null, img |-> Null, outcomes |-> {},
             terminalSeen |-> FALSE, touched |-> FALSE]

\* scale is kept in percent; width is 0 while the field is not set
initialTransform == [hasBackground |-> TRUE, rotation |-> 0, scale |-> 100,
                     position |-> [x |-> 0, y |-> 0], width |-> 0]

\* Math.max, Math.min
Max(a, b) == IF a >= b THEN a ELSE b

Min(a, b) == IF a <= b THEN a ELSE b

\* React drops a state update of a component that is no longer mounted
SetState(cur, new) == IF mounted THEN new ELSE cur

\* a call returns with outcome out: its locals and captured values are gone
Return(call, out) ==
    [IdleLoop EXCEPT !.pc = "done", !.job = call.job, !.outcomes = out,
                     !.terminalSeen = call.terminalSeen]

\* what a step that delivers no answer leaves in settled; sends is the
\* number of HTTP requests that were sent for the user action the answer
\* belongs to, color the colour a pick has sampled
NoAnswer == [kind |-> "none", ok |-> TRUE, reached |-> TRUE,
             statusText |-> "", detail |-> "", sends |-> 0, color |-> 0]

\* applyColorTransparency is not running
IdleCall == [pc |-> "idle", message |-> ""]

\* ------------------------------------------------- reading a pixel
\* natural sizes of the sampled images, sizes the design <img> is shown at
SampleNaturals == {[width |-> 4, height |-> 4]}

SampleSizes == {[width |-> 8, height |-> 8], [width |-> 10, height |-> 10]}

\* the element handleColorPick of the page measures the click against is
\* the wrapper of the design, designRef; box is where the image is shown
\* inside that element: the image filling it, and the image shown at half
\* its laid-out size around the centre of it (transform: scale(0.5) on the
\* child of the wrapper)
PageLayouts ==
    {[rect |-> [width |-> 8, height |-> 8],
      box |-> [left |-> 0, top |-> 0, width |-> 8, height |-> 8]],
     [rect |-> [width |-> 16, height |-> 16],
      box |-> [left |-> 4, top |-> 4, width |-> 8, height |-> 8]]}

\* no pixel is being read
\* loadPreviousDesigns and checkLocalServer before they are called
IdleLoad == [impl |-> "none", pc |-> "idle", flags |-> <<>>,
             designs |-> <<>>]

IdleHealth == [impl |-> "none", pc |-> "idle", requests |-> 0,
               retries |-> 0, status |-> 0, logged |-> <<>>,
               threw |-> FALSE]

\* CartContext.tsx, initialState
initialState == [items |-> <<>>, total |-> 0]

NoSample == [component |-> "none", done |-> FALSE]

\* a click or a mouse move at (x, y) of the image as it is shown, the far
\* borders included, before the handler has run.  DraggableDesign measures
\* against the rectangle of the <img> itself.
SampleInputs ==
    {[component |-> "DraggableDesign", done |-> FALSE, natural |-> n,
      rect |-> d,
      box |-> [left |-> 0, top |-> 0, width |-> d.width,
               height |-> d.height],
      x |-> x, y |-> y, actualX |-> 0, actualY |-> 0, color |-> <<>>] :
        n \in SampleNaturals, d \in SampleSizes, x \in 0..10, y \in 0..10}
    \cup
    {[component |-> "page", done |-> FALSE, natural |-> n, rect |-> l.rect,
      box |-> l.box, x |-> x, y |-> y, actualX |-> 0, actualY |-> 0,
      color |-> <<>>] :
        n \in SampleNaturals, l \in PageLayouts, x \in 0..10, y \in 0..10}

InitWith(v, limit) ==
    /\ variant = v
    /\ procLimit = limit
    /\ mounted = TRUE
    /\ isGenerating = FALSE
    /\ error = NoError
    /\ isLoading = FALSE
    /\ isPickingColor = FALSE
    /\ designTexture = Null
    /\ designHistory = <<>>
    /\ designTransform = initialTransform
    /\ selectedColor = 0
    /\ taskId = 0
    /\ previousDesigns = <<>>
    /\ isLoadingHistory = (v = "controller")
    /\ gen = [i \in Loops |-> IdleLoop]
    /\ nGen = 0
    /\ remote = {}
    /\ nReq = 0
    /\ replaced = <<>>
    /\ undoFound = -1
    /\ settled = NoAnswer
    /\ isCropping = FALSE
    /\ isDragging = FALSE
    /\ dragStart = [x |-> 0, y |-> 0]
    /\ designSize = [width |-> 0, height |-> 0]
    /\ containerRect \in ContainerRects
    /\ imgOnload = <<>>
    /\ created = {}
    /\ revoked = {}
    /\ currentObjectUrl = Null
    /\ tr = IdleCall
    /\ rejections = {}
    /\ sampling \in IF v = "sampler"
                     THEN {i \in SampleInputs : /\ i.x <= i.box.width
                                                /\ i.y <= i.box.height}
                     ELSE {NoSample}
    /\ loadCall = IdleLoad
    /\ healthCall = IdleHealth
    /\ cart = initialState

Init == \E v \in Variants : InitWith(v, MaxProcessing)

\* ---------------------------------------------------------------- api.ts
\* updateDesignWithHistory(setDesignHistory, setDesignTexture, designTexture, newDesign)
updateDesignWithHistory(history, closureTexture) ==
    IF closureTexture # Null THEN Append(history, closureTexture) ELSE history

\* scale chosen for a loaded image: Math.min(1, maxSize / Math.max(w, h)), percent
fitScale(dim) == IF dim <= maxSize THEN 100 ELSE (maxSize * 100) \div dim

\* Math.round(img.width * scale), for an image whose longest edge is dim
scaledWidth(dim) == (dim * fitScale(dim)) \div 100

\* PromptInput disables the form while isGenerating; handleGenerate then
\* runs handleGenerateDesign up to the POST /design request
handleGenerate ==
    /\ variant = "controller"
    /\ mounted
    /\ ~isGenerating
    /\ nGen < MaxLoops
    /\ isGenerating' = TRUE
    /\ error' = NoError
    /\ nGen' = nGen + 1
    /\ gen' = [gen EXCEPT ![nGen + 1] =
                 [IdleLoop EXCEPT !.pc = "submit", !.closure = designTexture]]
    /\ undoFound' = -1
    /\ settled' = NoAnswer
    /\ UNCHANGED <<canvas, urls, service, sampling, api, cart, variant, replaced, previousDesigns, isLoadingHistory, procLimit, mounted, isLoading, isPickingColor,
                   designTexture, designHistory, designTransform,
                   selectedColor, taskId, remote, nReq>>

\* the answer to POST /design: the catch block, or setTaskId and the first
\* status request of pollDesignStatus
handleGenerateDesign(i, ok) ==
    /\ variant = "controller"
    /\ gen[i].pc = "submit"
    /\ IF ok
       THEN /\ taskId' = SetState(taskId, i)
            /\ gen' = [gen EXCEPT ![i].pc = "poll", ![i].job = i,
                                  ![i].requests = 1]
            /\ UNCHANGED <<error, isGenerating>>
       ELSE /\ error' = SetState(error, "Failed to generate design")
            /\ isGenerating' = SetState(isGenerating, FALSE)
            /\ gen' = [gen EXCEPT ![i] = Return(@, {"failed"})]
            /\ UNCHANGED taskId
    /\ undoFound' = -1
    /\ settled' = NoAnswer
    /\ UNCHANGED <<canvas, urls, service, sampling, api, cart, variant, replaced, previousDesigns, isLoadingHistory, procLimit, mounted, isLoading, isPickingColor,
                   designTexture, designHistory, designTransform,
                   selectedColor, remote, nReq, nGen>>

\* a loop that asks once more than maxRetries allows
continuePollingInclusive(retries) == retries <= maxRetries

\* the condition of the while loop of pollDesignStatus
continuePolling(retries) == retries < maxRetries

\* the code after the while loop of pollDesignStatus, reached by break or by
\* the loop condition
pollExit(retries, caught) ==
    [outcomes |-> (IF caught # NoError THEN {"failed"} ELSE {})
                    \cup (IF retries >= maxRetries THEN {"timeout"} ELSE {}),
     error |-> IF retries >= maxRetries
               THEN "Design generation timed out. Please try again."
               ELSE caught]

\* one answer of GET /status/{taskId} inside the while loop
pollDesignStatus(i, r) ==
    /\ variant = "controller"
    /\ gen[i].pc = "poll"
    /\ \/ /\ r = "processing"
          /\ gen[i].retries < procLimit
          /\ IF continuePolling(gen[i].retries + 1)
             THEN /\ gen' = [gen EXCEPT ![i].retries = @ + 1,
                                        ![i].requests = @ + 1]
                  /\ UNCHANGED error
             ELSE LET x == pollExit(gen[i].retries + 1, NoError) IN
                  /\ gen' = [gen EXCEPT ![i] = Return(@, x.outcomes)]
                  /\ error' = SetState(error, x.error)
       \/ /\ r = "completed"
          /\ gen' = [gen EXCEPT ![i].pc = "load", ![i].terminalSeen = TRUE,
                                ![i].img = JobImage(gen[i].job)]
          /\ UNCHANGED error
       \/ /\ r \in {"completedNoImage", "failed", "httpError"}
          /\ LET msg == CASE r = "completedNoImage" -> "No image data received"
                          [] r = "failed" -> "Design generation failed"
                          [] OTHER -> "Failed to get status"
                 x == pollExit(gen[i].retries, msg) IN
             /\ gen' = [gen EXCEPT
                          ![i] = Return([@ EXCEPT !.terminalSeen =
                                                    (r # "httpError")],
                                        x.outcomes)]
             /\ error' = SetState(error, x.error)
    /\ undoFound' = -1
    /\ settled' = NoAnswer
    /\ UNCHANGED <<canvas, urls, service, sampling, api, cart, variant, replaced, previousDesigns, isLoadingHistory, procLimit, mounted, isGenerating, isLoading,
                   isPickingColor, designTexture, designHistory,
                   designTransform, selectedColor, taskId, remote, nReq, nGen>>

\* loadImage settles: on success setDesignTexture, the updateDesignWithHistory
\* callback of handleGenerate (with the designTexture of the render that
\* submitted the prompt) and the start of saveDesignToHistory
loadImage(i, ok) ==
    /\ variant = "controller"
    /\ gen[i].pc = "load"
    /\ IF ok
       THEN /\ designHistory' = SetState(designHistory,
                     updateDesignWithHistory(designHistory, gen[i].closure))
            /\ designTexture' = SetState(designTexture, gen[i].img)
            /\ replaced' = IF mounted /\ designTexture # Null
                           THEN Append(replaced, designTexture)
                           ELSE replaced
            /\ isGenerating' = SetState(isGenerating, FALSE)
            /\ gen' = [gen EXCEPT ![i].pc = "save", ![i].touched = TRUE]
            /\ UNCHANGED error
       ELSE LET x == pollExit(gen[i].retries,
                              "Failed to load the generated image") IN
            /\ gen' = [gen EXCEPT ![i] = Return(@, x.outcomes)]
            /\ error' = SetState(error, x.error)
            /\ UNCHANGED <<designHistory, designTexture, isGenerating,
                           replaced>>
    /\ undoFound' = -1
    /\ settled' = NoAnswer
    /\ UNCHANGED <<canvas, urls, service, sampling, api, cart, variant, previousDesigns, isLoadingHistory, procLimit, mounted, isLoading, isPickingColor,
                   designTransform, selectedColor, taskId, remote, nReq, nGen>>

\* saveDesignToHistory settles (it catches its own errors): setDesignTransform
\* and the return out of the loop
saveDesignToHistory(i, dim) ==
    /\ variant = "controller"
    /\ gen[i].pc = "save"
    /\ designTransform' = SetState(designTransform,
           [designTransform EXCEPT !.hasBackground = TRUE,
                                   !.width = scaledWidth(dim),
                                   !.scale = fitScale(dim),
                                   !.position = [x |-> 0, y |-> 0]])
    /\ gen' = [gen EXCEPT ![i] = Return(@, {"completed"})]
    /\ undoFound' = -1
    /\ settled' = NoAnswer
    /\ UNCHANGED <<canvas, urls, service, sampling, api, cart, variant, replaced, previousDesigns, isLoadingHistory, procLimit, mounted, isGenerating, error, isLoading,
                   isPickingColor, designTexture, designHistory,
                   selectedColor, taskId, remote, nReq, nGen>>

\* the cleanup of the unmount effect
unmount ==
    /\ mounted
    /\ mounted' = FALSE
    /\ isGenerating' = FALSE
    /\ taskId' = 0
    /\ undoFound' = -1
    /\ settled' = NoAnswer
    /\ UNCHANGED <<canvas, urls, service, sampling, api, cart, variant, replaced, previousDesigns, isLoadingHistory, procLimit, error, isLoading, isPickingColor,
                   designTexture, designHistory, designTransform,
                   selectedColor, gen, nGen, remote, nReq>>

\* ------------------------------------------- pages/CustomDesign.tsx (page)
\* handleGenerateDesign up to the POST /design request
\* a handler that starts a generation whatever the flag says
alreadyInProgressNever(generating) == FALSE

\* the test at the head of handleGenerateDesign: 'Generation already in
\* progress, ignoring request'
alreadyInProgress(generating) == generating

pageHandleGenerateDesign ==
    /\ variant = "page"
    /\ mounted
    /\ ~alreadyInProgress(isGenerating)
    /\ nGen < MaxLoops
    /\ isGenerating' = TRUE
    /\ error' = NoError
    /\ designTexture' = Null
    /\ nGen' = nGen + 1
    /\ gen' = [gen EXCEPT ![nGen + 1] =
                 [IdleLoop EXCEPT !.pc = "submit",
                                  !.touched = (designTexture # Null)]]
    /\ undoFound' = -1
    /\ settled' = NoAnswer
    /\ UNCHANGED <<canvas, urls, service, sampling, api, cart, variant, replaced, previousDesigns, isLoadingHistory, procLimit,
                   mounted, isLoading, isPickingColor, designHistory,
                   designTransform, selectedColor, taskId, remote, nReq>>

\* the answer to POST /design: the catch block, or setTaskId and the first
\* status request of poll
pageSubmitSettled(i, ok) ==
    /\ variant = "page"
    /\ gen[i].pc = "submit"
    /\ IF ok
       THEN /\ taskId' = SetState(taskId, i)
            /\ gen' = [gen EXCEPT ![i].pc = "poll", ![i].job = i,
                                  ![i].requests = 1]
            /\ UNCHANGED <<error, isGenerating>>
       ELSE /\ error' = SetState(error, "Failed to start design generation")
            /\ isGenerating' = SetState(isGenerating, FALSE)
            /\ gen' = [gen EXCEPT ![i] = Return(@, {"failed"})]
            /\ UNCHANGED taskId
    /\ undoFound' = -1
    /\ settled' = NoAnswer
    /\ UNCHANGED <<canvas, urls, service, sampling, api, cart, variant, replaced, previousDesigns, isLoadingHistory, procLimit,
                   mounted, isLoading, isPickingColor, designTexture,
                   designHistory, designTransform, selectedColor, remote, nReq, nGen>>

\* the test after attempts++ in poll
attemptsExhausted(attempts) == attempts >= maxAttempts

\* one answer of GET /status/{taskId} in poll; an answer that is neither
\* 'completed' with image_data nor 'failed' counts an attempt and, after the
\* delay, sends the next request
pagePoll(i, r) ==
    /\ variant = "page"
    /\ gen[i].pc = "poll"
    /\ \/ /\ r = "completed"
          /\ designTexture' = SetState(designTexture, JobImage(gen[i].job))
          /\ gen' = [gen EXCEPT ![i].pc = "timer", ![i].terminalSeen = TRUE,
                                ![i].outcomes = {"completed"},
                                ![i].touched = TRUE]
          /\ UNCHANGED <<error, isGenerating>>
       \/ /\ r \in {"failed", "httpError"}
          /\ error' = SetState(error, IF r = "failed"
                                      THEN "Design generation failed"
                                      ELSE "Failed to check design status")
          /\ isGenerating' = SetState(isGenerating, FALSE)
          /\ gen' = [gen EXCEPT
                       ![i] = Return([@ EXCEPT !.terminalSeen = (r = "failed")],
                                     {"failed"})]
          /\ UNCHANGED designTexture
       \/ /\ r \in {"processing", "completedNoImage"}
          /\ gen[i].retries < procLimit
          /\ LET seen == gen[i].terminalSeen \/ r = "completedNoImage" IN
             IF attemptsExhausted(gen[i].retries + 1)
             THEN /\ error' = SetState(error, "Timed out waiting for design")
                  /\ isGenerating' = SetState(isGenerating, FALSE)
                  /\ gen' = [gen EXCEPT
                               ![i] = Return([@ EXCEPT !.terminalSeen = seen],
                                             {"timeout"})]
             ELSE /\ gen' = [gen EXCEPT ![i].retries = @ + 1,
                                        ![i].requests = @ + 1,
                                        ![i].terminalSeen = seen]
                  /\ UNCHANGED <<error, isGenerating>>
          /\ UNCHANGED designTexture
    /\ undoFound' = -1
    /\ settled' = NoAnswer
    /\ UNCHANGED <<canvas, urls, service, sampling, api, cart, variant, replaced, previousDesigns, isLoadingHistory, procLimit,
                   mounted, isLoading, isPickingColor, designHistory,
                   designTransform, selectedColor, taskId, remote, nReq, nGen>>

\* the 500 ms timer started when the image was set
pageTimer(i) ==
    /\ variant = "page"
    /\ gen[i].pc = "timer"
    /\ isGenerating' = SetState(isGenerating, FALSE)
    /\ gen' = [gen EXCEPT ![i] = Return(@, gen[i].outcomes)]
    /\ undoFound' = -1
    /\ settled' = NoAnswer
    /\ UNCHANGED <<canvas, urls, service, sampling, api, cart, variant, replaced, previousDesigns, isLoadingHistory, procLimit,
                   mounted, error, isLoading, isPickingColor, designTexture,
                   designHistory, designTransform, selectedColor, taskId,
                   remote, nReq, nGen>>

\* the Retry button, shown while error is truthy: a new poll loop for taskId
pageHandleRetry ==
    /\ variant = "page"
    /\ mounted
    /\ Truthy(error)
    /\ taskId # 0
    /\ nGen < MaxLoops
    /\ error' = ""
    /\ isGenerating' = TRUE
    /\ nGen' = nGen + 1
    /\ gen' = [gen EXCEPT ![nGen + 1] =
                 [IdleLoop EXCEPT !.pc = "poll", !.job = taskId,
                                  !.requests = 1]]
    /\ undoFound' = -1
    /\ settled' = NoAnswer
    /\ UNCHANGED <<canvas, urls, service, sampling, api, cart, variant, replaced, previousDesigns, isLoadingHistory, procLimit,
                   mounted, isLoading, isPickingColor, designTexture,
                   designHistory, designTransform, selectedColor, taskId,
                   remote, nReq>>

PageGeneration ==
    \/ pageHandleGenerateDesign
    \/ \E i \in Loops, ok \in BOOLEAN : pageSubmitSettled(i, ok)
    \/ \E i \in Loops,
          r \in {"processing", "completed", "completedNoImage", "failed",
                 "httpError"} : pagePoll(i, r)
    \/ \E i \in Loops : pageTimer(i)
    \/ pageHandleRetry

Generation ==
    \/ handleGenerate
    \/ \E i \in Loops, ok \in BOOLEAN : handleGenerateDesign(i, ok)
    \/ \E i \in Loops,
          r \in {"processing", "completed", "completedNoImage", "failed",
                 "httpError"} : pollDesignStatus(i, r)
    \/ \E i \in Loops, ok \in BOOLEAN : loadImage(i, ok)
    \/ \E i \in Loops, dim \in Dims : saveDesignToHistory(i, dim)

\* ------------------------------------------------ remote image processing
\* the Remove-BG button (CustomDesign.tsx) with handleBackgroundToggle
\* (api.ts) up to the POST /remove-background request
handleBackgroundToggle ==
    /\ variant = "controller"
    /\ mounted
    /\ designTexture # Null
    /\ ~isLoading
    /\ nReq < MaxRemote
    /\ isLoading' = TRUE
    /\ error' = NoError
    /\ nReq' = nReq + 1
    /\ remote' = remote \cup {[id |-> nReq + 1, kind |-> "bg", sends |-> 1]}
    /\ undoFound' = -1
    /\ settled' = NoAnswer
    /\ UNCHANGED <<canvas, urls, service, sampling, api, cart, variant, replaced, previousDesigns, isLoadingHistory, procLimit, mounted, isGenerating, isPickingColor,
                   designTexture, designHistory, designTransform,
                   selectedColor, taskId, gen, nGen>>

\* the answer to POST /remove-background.  On success the handler calls the
\* four-parameter updateDesignWithHistory of api.ts with the URL alone, so
\* its setDesignTexture parameter is undefined and the call throws before
\* setDesignTransform; the catch block reports the TypeError.
removeBackgroundSettled(q, ok) ==
    /\ variant = "controller"
    /\ q \in remote
    /\ q.kind = "bg"
    /\ remote' = remote \ {q}
    /\ error' = SetState(error, IF ok THEN "setDesignTexture is not a function"
                                      ELSE "Failed to remove background")
    /\ isLoading' = SetState(isLoading, FALSE)
    /\ created' = IF ok THEN created \cup {BlobUrl(q.id)} ELSE created
    /\ undoFound' = -1
    /\ settled' = [NoAnswer EXCEPT !.kind = "bg", !.ok = ok,
                                   !.sends = q.sends]
    /\ UNCHANGED <<canvas, revoked, currentObjectUrl, service, sampling, api, cart, variant, replaced, previousDesigns, isLoadingHistory, procLimit, mounted, isGenerating, isPickingColor,
                   designTexture, designHistory, designTransform,
                   selectedColor, taskId, gen, nGen, nReq>>

\* the Color button
togglePickingColor ==
    /\ variant = "controller"
    /\ mounted
    /\ designTexture # Null
    /\ isPickingColor' = ~isPickingColor
    /\ undoFound' = -1
    /\ settled' = NoAnswer
    /\ UNCHANGED <<canvas, urls, service, sampling, api, cart, variant, replaced, previousDesigns, isLoadingHistory, procLimit, mounted, isGenerating, error, isLoading,
                   designTexture, designHistory, designTransform,
                   selectedColor, taskId, gen, nGen, remote, nReq>>

\* handleColorPick samples colour c and calls handleTransparencyChange with
\* the designTexture and the selectedColor of the current render; that call
\* runs up to the POST /color_transparency request, whose form field
\* 'color' is the selectedColor it was given
handleColorPick(c) ==
    /\ variant = "controller"
    /\ mounted
    /\ isPickingColor
    /\ designTexture # Null
    /\ nReq < MaxRemote
    /\ selectedColor' = c
    /\ isPickingColor' = FALSE
    /\ isLoading' = TRUE
    /\ error' = NoError
    /\ nReq' = nReq + 1
    /\ remote' = remote \cup {[id |-> nReq + 1, kind |-> "tr", sends |-> 1,
                                color |-> selectedColor]}
    /\ undoFound' = -1
    /\ settled' = NoAnswer
    /\ UNCHANGED <<canvas, urls, service, sampling, api, cart, variant, replaced, previousDesigns, isLoadingHistory, procLimit, mounted, isGenerating, designTexture,
                   designHistory, designTransform, taskId, gen, nGen>>

\* the answers of POST /color_transparency: the image, a non-success status
\* with a JSON body {detail}, no answer at all (fetch throws)
TransparencyAnswers ==
    {[NoAnswer EXCEPT !.kind = "tr", !.statusText = "OK"],
     [NoAnswer EXCEPT !.kind = "tr", !.ok = FALSE,
                      !.statusText = "Internal Server Error",
                      !.detail = "OOM"],
     [NoAnswer EXCEPT !.kind = "tr", !.ok = FALSE, !.reached = FALSE]}

\* a catch block that reports nothing
transparencyErrorSilent(r) == NoError

\* err.message in the catch block of handleTransparencyChange: the message
\* of the TypeError of fetch, or
\* `Failed to apply transparency: ${response.statusText}`
transparencyError(r) ==
    IF ~r.reached THEN "Failed to fetch"
    ELSE IF r.statusText = "Internal Server Error"
         THEN "Failed to apply transparency: Internal Server Error"
         ELSE "Failed to apply transparency: "

\* the answer to POST /color_transparency
handleTransparencyChange(q, r) ==
    /\ variant = "controller"
    /\ q \in remote
    /\ q.kind = "tr"
    /\ remote' = remote \ {q}
    /\ IF r.ok
       THEN /\ designTexture' = SetState(designTexture, BlobUrl(q.id))
            /\ created' = created \cup {BlobUrl(q.id)}
            /\ UNCHANGED error
       ELSE /\ error' = SetState(error, transparencyError(r))
            /\ UNCHANGED <<designTexture, created>>
    /\ isLoading' = SetState(isLoading, FALSE)
    /\ undoFound' = -1
    /\ settled' = [r EXCEPT !.sends = q.sends]
    /\ UNCHANGED <<canvas, revoked, currentObjectUrl, service, sampling, api, cart, variant, replaced, previousDesigns, isLoadingHistory, procLimit, mounted, isGenerating, isPickingColor,
                   designHistory, designTransform, selectedColor, taskId,
                   gen, nGen, nReq>>

\* ------------------------------------------------------- history and edits
\* what handleUndo would do without its test of the history length
canUndoAlways(history) == TRUE

\* the test of handleUndo
canUndo(history) == Len(history) > 0

\* designHistory[designHistory.length - 1]; out of range it is undefined
previousState(history) ==
    IF Len(history) > 0 THEN history[Len(history)] ELSE Null

\* designHistory.slice(0, -1)
newHistory(history) == SubSeq(history, 1, Len(history) - 1)

handleUndo ==
    /\ variant = "controller"
    /\ mounted
    /\ IF canUndo(designHistory)
       THEN /\ designHistory' = newHistory(designHistory)
            /\ designTexture' = previousState(designHistory)
       ELSE UNCHANGED <<designTexture, designHistory>>
    /\ replaced' = SubSeq(replaced, 1, Len(replaced) - 1)
    /\ undoFound' = Len(designHistory)
    /\ settled' = NoAnswer
    /\ UNCHANGED <<canvas, urls, service, sampling, api, cart, variant, previousDesigns, isLoadingHistory, procLimit, mounted, isGenerating, error, isLoading,
                   isPickingColor, designTransform, selectedColor, taskId,
                   gen, nGen, remote, nReq>>

\* the mount effect's loadPreviousDesigns settles
loadPreviousDesigns(ok) ==
    /\ isLoadingHistory
    /\ previousDesigns' = SetState(previousDesigns,
                                   IF ok THEN <<GalleryImage>> ELSE <<>>)
    /\ isLoadingHistory' = SetState(isLoadingHistory, FALSE)
    /\ undoFound' = -1
    /\ settled' = NoAnswer
    /\ UNCHANGED <<canvas, urls, service, sampling, api, cart, variant, replaced, procLimit, mounted, isGenerating, error, isLoading,
                   isPickingColor, designTexture, designHistory,
                   designTransform, selectedColor, taskId, gen,
                   nGen, remote, nReq>>

\* a click on a thumbnail of the gallery that calls updateDesignWithHistory
selectPreviousDesign(d) ==
    /\ variant = "controller"
    /\ mounted
    /\ d \in {previousDesigns[k] : k \in 1..Len(previousDesigns)}
    /\ Len(designHistory) < MaxHistory
    /\ designHistory' = updateDesignWithHistory(designHistory, designTexture)
    /\ designTexture' = d
    /\ replaced' = IF designTexture # Null
                   THEN Append(replaced, designTexture)
                   ELSE replaced
    /\ undoFound' = -1
    /\ settled' = NoAnswer
    /\ UNCHANGED <<canvas, urls, service, sampling, api, cart, variant, procLimit, mounted, isGenerating, error, isLoading,
                   isPickingColor, designTransform, selectedColor, taskId,
                   previousDesigns, isLoadingHistory, gen, nGen,
                   remote, nReq>>

\* the Size slider
setScale(s) ==
    /\ variant = "controller"
    /\ mounted
    /\ designTexture # Null
    /\ designTransform' = [designTransform EXCEPT !.scale = s]
    /\ undoFound' = -1
    /\ settled' = NoAnswer
    /\ UNCHANGED <<canvas, urls, service, sampling, api, cart, variant, replaced, previousDesigns, isLoadingHistory, procLimit, mounted, isGenerating, error, isLoading,
                   isPickingColor, designTexture, designHistory,
                   selectedColor, taskId, gen, nGen, remote, nReq>>

\* the resize buttons (+ and -) of the page: a step of 0.05 held within
\* [0.1, 3]
handleResize(direction) ==
    /\ variant = "controller"
    /\ mounted
    /\ designTexture # Null
    /\ designTransform' =
          [designTransform EXCEPT
             !.scale = Max(10, Min(300, @ + (IF direction = "increase"
                                             THEN 5 ELSE -5)))]
    /\ undoFound' = -1
    /\ settled' = NoAnswer
    /\ UNCHANGED <<canvas, urls, service, sampling, api, cart, variant, replaced,
                   previousDesigns, isLoadingHistory, procLimit, mounted,
                   isGenerating, error, isLoading, isPickingColor,
                   designTexture, designHistory, selectedColor, taskId, gen,
                   nGen, remote, nReq>>

RemoteProcessing ==
    \/ handleBackgroundToggle
    \/ \E q \in remote, ok \in BOOLEAN : removeBackgroundSettled(q, ok)
    \/ togglePickingColor
    \/ \E c \in PickColors : handleColorPick(c)
    \/ \E q \in remote, r \in TransparencyAnswers :
          handleTransparencyChange(q, r)

History ==
    \/ \E ok \in BOOLEAN : loadPreviousDesigns(ok)
    \/ \E d \in {GalleryImage} : selectPreviousDesign(d)
    \/ handleUndo

\* ---------------------------------------------------- the canvas page
\* CustomDesign.tsx (first copy, lines 1-729) with DesignService and the
\* DraggableDesign component; isPickingColor is its isPickingDesignColor
\* the image POST /remove-background answers request r with
ProcessedImage(r) == <<"processed", r>>

\* width the design <img> is laid out with (DraggableDesign, img.onload)
baseWidth == 200

\* naturalWidth and naturalHeight of the images that are loaded
NaturalSizes == {[width |-> 512, height |-> 512]}

\* pointer positions (clientX, clientY) of the mouse events
Pointers == {[x |-> 0, y |-> 0], [x |-> 300, y |-> 300]}

\* values of the Scale slider (percent)
CanvasScales == {200}

\* the regions ReactCrop reports to onComplete
CropRegions == {[width |-> 0, height |-> 0], [width |-> 50, height |-> 50]}

\* URL.revokeObjectURL(currentObjectUrl.current) behind its null test, as in
\* handleSuccessfulGeneration and in the effect on [designTexture]
revokeCurrent(released, url) ==
    IF url # Null THEN released \cup {url} ELSE released

\* the effect of DraggableDesign on [designTexture]: a new design image gets
\* an onload handler that holds the designTransform of that render
attachOnload(texture, transform) ==
    IF mounted /\ texture # designTexture /\ texture # Null
    THEN <<transform>>
    ELSE imgOnload

\* handleGenerate up to the call of DesignService.generateDesign
canvasHandleGenerate ==
    /\ variant = "canvas"
    /\ mounted
    /\ ~isGenerating
    /\ nGen < MaxLoops
    /\ isGenerating' = TRUE
    /\ error' = NoError
    /\ nGen' = nGen + 1
    /\ gen' = [gen EXCEPT ![nGen + 1] = [IdleLoop EXCEPT !.pc = "submit"]]
    /\ undoFound' = -1
    /\ settled' = NoAnswer
    /\ UNCHANGED <<canvas, urls, service, sampling, api, cart, variant, replaced, previousDesigns,
                   isLoadingHistory, procLimit, mounted, isLoading,
                   isPickingColor, designTexture, designHistory,
                   designTransform, selectedColor, taskId, remote, nReq>>

\* DesignService.generateDesign settles: the catch and finally blocks, or
\* handleSuccessfulGeneration up to DesignService.saveDesignToHistory
generateDesign(i, ok) ==
    /\ variant = "canvas"
    /\ gen[i].pc = "submit"
    /\ IF ok
       THEN /\ revoked' = revokeCurrent(revoked, currentObjectUrl)
            /\ designTexture' = SetState(designTexture, JobImage(i))
            /\ imgOnload' = attachOnload(JobImage(i), designTransform)
            /\ gen' = [gen EXCEPT ![i].pc = "save", ![i].job = i]
            /\ UNCHANGED <<error, isGenerating>>
       ELSE /\ error' = SetState(error,
                                 "No image data received from the server")
            /\ isGenerating' = SetState(isGenerating, FALSE)
            /\ gen' = [gen EXCEPT ![i] = Return(@, {"failed"})]
            /\ UNCHANGED <<revoked, designTexture, imgOnload>>
    /\ undoFound' = -1
    /\ settled' = NoAnswer
    /\ UNCHANGED <<isCropping, isDragging, dragStart, designSize,
                   containerRect, created, currentObjectUrl, service,
                   sampling, api, cart, variant, replaced, previousDesigns, isLoadingHistory,
                   procLimit, mounted, isLoading, isPickingColor,
                   designHistory, designTransform, selectedColor, taskId,
                   remote, nReq, nGen>>

\* DesignService.saveDesignToHistory settles: the rest of
\* handleSuccessfulGeneration, or the catch block, and the finally block
canvasSaveDesignToHistory(i, ok) ==
    /\ variant = "canvas"
    /\ gen[i].pc = "save"
    /\ IF ok
       THEN /\ previousDesigns' = SetState(previousDesigns,
                                           Append(previousDesigns,
                                                  JobImage(gen[i].job)))
            /\ designTransform' = SetState(designTransform, initialTransform)
            /\ UNCHANGED error
       ELSE /\ error' = SetState(error, "Failed to save design")
            /\ UNCHANGED <<previousDesigns, designTransform>>
    /\ isGenerating' = SetState(isGenerating, FALSE)
    /\ gen' = [gen EXCEPT ![i] = Return(@, IF ok THEN {"completed"}
                                                 ELSE {"failed"})]
    /\ undoFound' = -1
    /\ settled' = NoAnswer
    /\ UNCHANGED <<canvas, urls, service, sampling, api, cart, variant, replaced,
                   isLoadingHistory, procLimit, mounted, isLoading,
                   isPickingColor, designTexture, designHistory,
                   selectedColor, taskId, remote, nReq, nGen>>

\* img.onload of DraggableDesign: the design gets its size and, when the
\* transform the handler holds is at (0, 0), that transform centred
imgLoaded(natural) ==
    /\ variant = "canvas"
    /\ mounted
    /\ designTexture # Null
    /\ imgOnload # <<>>
    /\ designSize' = [width |-> baseWidth,
                      height |-> (baseWidth * natural.height)
                                    \div natural.width]
    /\ designTransform' =
           IF imgOnload[1].position = [x |-> 0, y |-> 0]
           THEN [imgOnload[1] EXCEPT
                   !.position = [x |-> containerRect.width \div 2,
                                 y |-> containerRect.height \div 2]]
           ELSE designTransform
    /\ imgOnload' = <<>>
    /\ undoFound' = -1
    /\ settled' = NoAnswer
    /\ UNCHANGED <<isCropping, isDragging, dragStart, containerRect, urls,
                   service, sampling, api, cart, variant, replaced, previousDesigns,
                   isLoadingHistory, procLimit, mounted, isGenerating, error,
                   isLoading, isPickingColor, designTexture, designHistory,
                   selectedColor, taskId, gen, nGen, remote, nReq>>

\* the Crop / Cancel button
toggleCropping ==
    /\ variant = "canvas"
    /\ mounted
    /\ designTexture # Null
    /\ ~isDragging
    /\ isCropping' = ~isCropping
    /\ undoFound' = -1
    /\ settled' = NoAnswer
    /\ UNCHANGED <<isDragging, dragStart, designSize, containerRect,
                   imgOnload, urls, service, sampling, api, cart, variant, replaced,
                   previousDesigns, isLoadingHistory, procLimit, mounted,
                   isGenerating, error, isLoading, isPickingColor,
                   designTexture, designHistory, designTransform,
                   selectedColor, taskId, gen, nGen, remote, nReq>>

\* the Pick Color / Cancel button
togglePickingDesignColor ==
    /\ variant = "canvas"
    /\ mounted
    /\ designTexture # Null
    /\ ~isDragging
    /\ isPickingColor' = ~isPickingColor
    /\ undoFound' = -1
    /\ settled' = NoAnswer
    /\ UNCHANGED <<canvas, urls, service, sampling, api, cart, variant, replaced,
                   previousDesigns, isLoadingHistory, procLimit, mounted,
                   isGenerating, error, isLoading, designTexture,
                   designHistory, designTransform, selectedColor, taskId,
                   gen, nGen, remote, nReq>>

\* a handler of onDesignColorChange that keeps the design colour
onDesignColorChangeIgnored(color, designColor) == designColor

\* handleColorPick of the page, the onDesignColorChange of DraggableDesign:
\* the design colour after setDesignColor(color)
onDesignColorChange(color, designColor) == color

\* handleImageColorPick of DraggableDesign, a click on the design <img>
\* that samples colour c, with handleColorPick of the page
handleImageColorPick(c) ==
    /\ variant = "canvas"
    /\ mounted
    /\ designTexture # Null
    /\ isPickingColor
    /\ selectedColor' = onDesignColorChange(c, selectedColor)
    /\ isPickingColor' = FALSE
    /\ undoFound' = -1
    /\ settled' = [NoAnswer EXCEPT !.kind = "pick", !.color = c]
    /\ UNCHANGED <<canvas, urls, service, sampling, api, cart, variant, replaced,
                   previousDesigns, isLoadingHistory, procLimit, mounted,
                   isGenerating, error, isLoading, designTexture,
                   designHistory, designTransform, taskId, gen, nGen,
                   remote, nReq>>

\* handleMouseDown of DraggableDesign, pointer at e
handleMouseDown(e) ==
    /\ variant = "canvas"
    /\ mounted
    /\ designTexture # Null
    /\ ~(isCropping \/ isPickingColor)
    /\ ~isDragging
    /\ isDragging' = TRUE
    /\ dragStart' =
           [x |-> e.x - (designTransform.position.x
                           - containerRect.width \div 2),
            y |-> e.y - (designTransform.position.y
                           - containerRect.height \div 2)]
    /\ undoFound' = -1
    /\ settled' = NoAnswer
    /\ UNCHANGED <<isCropping, designSize, containerRect, imgOnload, urls,
                   service, sampling, api, cart, variant, replaced, previousDesigns,
                   isLoadingHistory, procLimit, mounted, isGenerating, error,
                   isLoading, isPickingColor, designTexture, designHistory,
                   designTransform, selectedColor, taskId, gen, nGen, remote,
                   nReq>>

\* designSize.width * designTransform.scale, the scale in percent
scaledSize(size, scale) == (size * scale) \div 100

\* a constraint that holds the design back at the far edge only
constrainFarEdge(size, container, new) == Min(container - size \div 2, new)

\* Math.max(minX, Math.min(maxX, newX)) with minX = scaledWidth / 2 and
\* maxX = containerRect.width - scaledWidth / 2
constrain(size, container, new) ==
    Max(size \div 2, Min(container - size \div 2, new))

\* handleMouseMove of DraggableDesign, pointer at e
handleMouseMove(e) ==
    /\ variant = "canvas"
    /\ mounted
    /\ designTexture # Null
    /\ isDragging
    /\ ~(isCropping \/ isPickingColor)
    /\ designTransform' =
         [designTransform EXCEPT !.position =
            [x |-> constrain(scaledSize(designSize.width,
                                        designTransform.scale),
                             containerRect.width,
                             e.x - dragStart.x + containerRect.width \div 2),
             y |-> constrain(scaledSize(designSize.height,
                                        designTransform.scale),
                             containerRect.height,
                             e.y - dragStart.y
                               + containerRect.height \div 2)]]
    /\ undoFound' = -1
    /\ settled' = [NoAnswer EXCEPT !.kind = "move"]
    /\ UNCHANGED <<canvas, urls, service, sampling, api, cart, variant, replaced,
                   previousDesigns, isLoadingHistory, procLimit, mounted,
                   isGenerating, error, isLoading, isPickingColor,
                   designTexture, designHistory, selectedColor, taskId, gen,
                   nGen, remote, nReq>>

\* handleMouseUp of DraggableDesign (mouse up, mouse leave)
handleMouseUp ==
    /\ variant = "canvas"
    /\ mounted
    /\ designTexture # Null
    /\ isDragging
    /\ isDragging' = FALSE
    /\ undoFound' = -1
    /\ settled' = NoAnswer
    /\ UNCHANGED <<isCropping, dragStart, designSize, containerRect,
                   imgOnload, urls, service, sampling, api, cart, variant, replaced,
                   previousDesigns, isLoadingHistory, procLimit, mounted,
                   isGenerating, error, isLoading, isPickingColor,
                   designTexture, designHistory, designTransform,
                   selectedColor, taskId, gen, nGen, remote, nReq>>

\* designRef.current of the page: the ref is passed to no element (the
\* design <img> carries the designRef of DraggableDesign)
designRef == Null

\* the blob URL of the n-th cropped image
CropUrl(n) == <<"crop", n>>

\* handleCropComplete, the onComplete of ReactCrop, with the callback of
\* canvas.toBlob
handleCropComplete(crop) ==
    /\ variant = "canvas"
    /\ mounted
    /\ designTexture # Null
    /\ isCropping
    /\ IF designRef # Null /\ crop.width # 0 /\ crop.height # 0
       THEN LET url == CropUrl(Cardinality(created) + 1) IN
            \* the effect on [designTexture] then revokes the new URL
            /\ revoked' = revokeCurrent(revoked, currentObjectUrl) \cup {url}
            /\ created' = created \cup {url}
            /\ currentObjectUrl' = url
            /\ designHistory' = Append(designHistory, designTexture)
            /\ designTexture' = url
            /\ imgOnload' = attachOnload(url, designTransform)
            /\ isCropping' = FALSE
       ELSE UNCHANGED <<revoked, created, currentObjectUrl, designHistory,
                        designTexture, imgOnload, isCropping>>
    /\ undoFound' = -1
    /\ settled' = [NoAnswer EXCEPT !.kind = "crop",
                                   !.ok = (crop.width # 0 /\ crop.height # 0)]
    /\ UNCHANGED <<isDragging, dragStart, designSize, containerRect, service,
                   sampling, api, cart, variant, replaced, previousDesigns, isLoadingHistory,
                   procLimit, mounted, isGenerating, error, isLoading,
                   isPickingColor, designTransform, selectedColor, taskId,
                   gen, nGen, remote, nReq>>

\* the Scale slider
canvasSetScale(s) ==
    /\ variant = "canvas"
    /\ mounted
    /\ designTexture # Null
    /\ ~isDragging
    /\ designTransform' = [designTransform EXCEPT !.scale = s]
    /\ undoFound' = -1
    /\ settled' = NoAnswer
    /\ UNCHANGED <<canvas, urls, service, sampling, api, cart, variant, replaced,
                   previousDesigns, isLoadingHistory, procLimit, mounted,
                   isGenerating, error, isLoading, isPickingColor,
                   designTexture, designHistory, selectedColor, taskId, gen,
                   nGen, remote, nReq>>

\* the Reset button
handleReset ==
    /\ variant = "canvas"
    /\ mounted
    /\ designTexture # Null
    /\ ~isDragging
    /\ designTransform' = [designTransform EXCEPT
                             !.rotation = 0, !.scale = 100,
                             !.position = [x |-> 300, y |-> 300]]
    /\ selectedColor' = 0
    /\ isPickingColor' = FALSE
    /\ isCropping' = FALSE
    /\ undoFound' = -1
    /\ settled' = [NoAnswer EXCEPT !.kind = "reset"]
    /\ UNCHANGED <<isDragging, dragStart, designSize, containerRect,
                   imgOnload, urls, service, sampling, api, cart, variant, replaced,
                   previousDesigns, isLoadingHistory, procLimit, mounted,
                   isGenerating, error, isLoading, designTexture,
                   designHistory, taskId, gen, nGen, remote, nReq>>

\* handleBackgroundToggle of the page up to the call of
\* DesignService.removeBackground; currentTransform is a copy of the
\* designTransform of this render
canvasHandleBackgroundToggle ==
    /\ variant = "canvas"
    /\ mounted
    /\ designTexture # Null
    /\ ~isLoading
    /\ ~isDragging
    /\ nReq < MaxRemote
    /\ isLoading' = TRUE
    /\ error' = NoError
    /\ nReq' = nReq + 1
    /\ remote' = remote \cup {[id |-> nReq + 1, kind |-> "bg", sends |-> 1,
                               retries |-> MAX_RETRIES,
                               currentTransform |-> designTransform]}
    /\ undoFound' = -1
    /\ settled' = NoAnswer
    /\ UNCHANGED <<canvas, urls, service, sampling, api, cart, variant, replaced,
                   previousDesigns, isLoadingHistory, procLimit, mounted,
                   isGenerating, isPickingColor, designTexture,
                   designHistory, designTransform, selectedColor, taskId,
                   gen, nGen>>

\* the answers of POST /remove-background: status 0 stands for a request
\* without response, image for a body with a non-empty field image
RemovalAnswers ==
    {[status |-> 200, image |-> TRUE], [status |-> 200, image |-> FALSE],
     [status |-> 500, image |-> FALSE], [status |-> 404, image |-> FALSE],
     [status |-> 0, image |-> FALSE]}

\* the response interceptor of ApiService: handleError throws a new Error
\* for the AxiosError it is given, so what the caller of axios catches is
\* not an AxiosError and carries no response
handleError(r) ==
    [isAxiosError |-> FALSE, hasResponse |-> FALSE, status |-> 0,
     message |-> CASE r.status = 0 ->
                        "Cannot connect to the server. Please check your internet connection and try again."
                   [] r.status = 404 ->
                        "API endpoint not found. Please check the server configuration."
                   [] r.status = 502 ->
                        "Server is temporarily unavailable. Please try again in a few moments."
                   [] r.status = 500 ->
                        "Internal server error. Please try again later."
                   [] OTHER -> "An error occurred"]

\* a test that takes every error without response for a network error
shouldRetryUnwrapped(caught) ==
    ~caught.hasResponse \/ (caught.status >= 500 /\ caught.status < 600)

\* ApiService.shouldRetry
shouldRetry(caught) ==
    caught.isAxiosError
        /\ (~caught.hasResponse
              \/ (caught.status >= 500 /\ caught.status < 600))

\* the catch block of ApiService.retryRequest: the request is sent again
retryRequest(retries, caught) == retries > 0 /\ shouldRetry(caught)

\* DesignService.removeBackground settles: one answer to the request that
\* apiService.post sent.  When retryRequest repeats the request, the wait of
\* RETRY_DELAY and the next request belong to this step (nothing is read in
\* between).
removeBackground(q, r) ==
    /\ variant = "canvas"
    /\ q \in remote
    /\ IF r.status # 200 /\ retryRequest(q.retries, handleError(r))
       THEN /\ remote' = (remote \ {q})
                            \cup {[q EXCEPT !.retries = @ - 1,
                                            !.sends = @ + 1]}
            /\ settled' = NoAnswer
            /\ UNCHANGED <<designTexture, designTransform, imgOnload,
                           revoked, error, isLoading>>
       ELSE /\ remote' = remote \ {q}
            /\ IF r.status = 200 /\ r.image
               THEN /\ designTexture' = SetState(designTexture,
                                                 ProcessedImage(q.id))
                    /\ designTransform' =
                         SetState(designTransform,
                                  [q.currentTransform EXCEPT
                                     !.hasBackground =
                                        ~q.currentTransform.hasBackground])
                    /\ imgOnload' = attachOnload(ProcessedImage(q.id),
                                                 designTransform')
                    /\ revoked' = IF mounted
                                  THEN revokeCurrent(revoked, currentObjectUrl)
                                  ELSE revoked
                    /\ UNCHANGED error
               ELSE /\ error' = SetState(error,
                                 "Failed to process image. Please try again.")
                    /\ UNCHANGED <<designTexture, designTransform, imgOnload,
                                   revoked>>
            /\ isLoading' = SetState(isLoading, FALSE)
            /\ settled' = [NoAnswer EXCEPT !.kind = "bg",
                                           !.ok = (r.status = 200 /\ r.image),
                                           !.reached = (r.status # 0),
                                           !.sends = q.sends]
    /\ undoFound' = -1
    /\ UNCHANGED <<isCropping, isDragging, dragStart, designSize,
                   containerRect, created, currentObjectUrl, service,
                   sampling, api, cart, variant, replaced,
                   previousDesigns, isLoadingHistory, procLimit, mounted,
                   isGenerating, isPickingColor, designHistory,
                   selectedColor, taskId, gen, nGen, nReq>>

\* the pages under the bounded status endpoint, without gallery and undo
Next ==
    \/ Generation
    \/ PageGeneration
    \/ RemoteProcessing
    \/ \E s \in SliderScales : setScale(s)
    \/ unmount

Spec == Init /\ [][Next]_vars

\* the controller with its gallery and undo
InitHistory == InitWith("controller", MaxProcessing)

NextHistory ==
    \/ Generation
    \/ History
    \/ \E s \in SliderScales : setScale(s)
    \/ unmount

SpecHistory == InitHistory /\ [][NextHistory]_vars

\* the scale of the controller: generated images of the usual and of a
\* very large size, the ends of the Size slider and the resize buttons
LargeDims == {6000}

SliderEnds == {10, 200}

InitScale == InitWith("controller", MaxProcessing)

NextScale ==
    \/ Generation
    \/ \E i \in Loops, dim \in LargeDims : saveDesignToHistory(i, dim)
    \/ \E s \in SliderEnds : setScale(s)
    \/ \E direction \in {"increase", "decrease"} : handleResize(direction)

SpecScale == InitScale /\ [][NextScale]_vars

\* the generation flow alone, the status endpoint answering 'processing' for
\* as long as the loop asks
InitPoll ==
    \E v \in Variants :
        InitWith(v, IF v = "controller" THEN maxRetries ELSE maxAttempts)

NextPoll ==
    \/ Generation
    \/ PageGeneration
    \/ unmount

SpecPoll == InitPoll /\ [][NextPoll]_vars

CanvasGeneration ==
    \/ canvasHandleGenerate
    \/ \E i \in Loops, ok \in BOOLEAN : generateDesign(i, ok)
    \/ \E i \in Loops, ok \in BOOLEAN : canvasSaveDesignToHistory(i, ok)
    \/ \E natural \in NaturalSizes : imgLoaded(natural)

Modes ==
    \/ toggleCropping
    \/ togglePickingDesignColor
    \/ \E c \in PickColors : handleImageColorPick(c)
    \/ handleReset

Drag ==
    \/ \E e \in Pointers : handleMouseDown(e)
    \/ \E e \in Pointers : handleMouseMove(e)
    \/ handleMouseUp

CanvasRemote ==
    \/ canvasHandleBackgroundToggle
    \/ \E q \in remote, r \in RemovalAnswers : removeBackground(q, r)

\* the canvas page: its modes, the drag, the crop and the Scale slider
InitCanvas == InitWith("canvas", MaxProcessing)

NextCanvas ==
    \/ CanvasGeneration
    \/ Modes
    \/ Drag
    \/ \E crop \in CropRegions : handleCropComplete(crop)
    \/ \E s \in CanvasScales : canvasSetScale(s)

SpecCanvas == InitCanvas /\ [][NextCanvas]_vars

\* remote processing of the controller, whose images come from the gallery,
\* and of the canvas page with its Scale slider
InitRemote == \E v \in {"controller", "canvas"} : InitWith(v, MaxProcessing)

NextRemote ==
    \/ History
    \/ RemoteProcessing
    \/ CanvasGeneration
    \/ CanvasRemote
    \/ \E s \in CanvasScales : canvasSetScale(s)
    \/ unmount

SpecRemote == InitRemote /\ [][NextRemote]_vars

\* the drag alone, for a design that is loaded and centred: the sizes of
\* the box and of the design and the scale are drawn from
ClampContainers == {[width |-> 300, height |-> 300],
                    [width |-> 600, height |-> 600]}

ClampSizes == {[width |-> 0, height |-> 0],
               [width |-> 200, height |-> 100],
               [width |-> 200, height |-> 200],
               [width |-> 200, height |-> 400]}

ClampScales == {10, 100, 200, 300}

InitClamp ==
    /\ variant = "canvas"
    /\ procLimit = MaxProcessing
    /\ mounted = TRUE
    /\ isGenerating = FALSE
    /\ error = NoError
    /\ isLoading = FALSE
    /\ isPickingColor = FALSE
    /\ designTexture = JobImage(1)
    /\ designHistory = <<>>
    /\ containerRect \in ClampContainers
    /\ designSize \in ClampSizes
    /\ \E s \in ClampScales :
          designTransform =
              [initialTransform EXCEPT
                 !.scale = s,
                 !.position = [x |-> containerRect.width \div 2,
                               y |-> containerRect.height \div 2]]
    /\ selectedColor = 0
    /\ taskId = 0
    /\ previousDesigns = <<JobImage(1)>>
    /\ isLoadingHistory = FALSE
    /\ gen = [i \in Loops |-> IdleLoop]
    /\ nGen = 0
    /\ remote = {}
    /\ nReq = 0
    /\ replaced = <<>>
    /\ undoFound = -1
    /\ settled = NoAnswer
    /\ isCropping = FALSE
    /\ isDragging = FALSE
    /\ dragStart = [x |-> 0, y |-> 0]
    /\ imgOnload = <<>>
    /\ created = {}
    /\ revoked = {}
    /\ currentObjectUrl = Null
    /\ tr = IdleCall
    /\ rejections = {}
    /\ sampling = NoSample
    /\ loadCall = IdleLoad
    /\ healthCall = IdleHealth
    /\ cart = initialState

SpecClamp == InitClamp /\ [][Drag]_vars

\* the placement of a loaded design in boxes of the drawn sizes: the drag,
\* the Scale slider and the Reset button
NextPlacement ==
    \/ Drag
    \/ \E s \in CanvasScales : canvasSetScale(s)
    \/ handleReset

SpecPlacement == InitClamp /\ [][NextPlacement]_vars

\* ------------------------------------------- applyColorTransparency
\* CartContext.tsx 111-171; the second copy (189-239) differs only in how it
\* fetches a data: image
\* messages of the TypeError that fetch throws when the server is not
\* reached (Chromium, Firefox)
FetchErrors == {"Failed to fetch",
                "NetworkError when attempting to fetch resource."}

\* bodies of a non-success answer: text that is not JSON, or JSON with the
\* field detail ('' stands for a detail that is missing or empty)
Bodies == {[json |-> FALSE, detail |-> ""],
           [json |-> TRUE, detail |-> "OOM"],
           [json |-> TRUE, detail |-> "Invalid color format"],
           [json |-> TRUE, detail |-> ""]}

\* the inner try / catch of the non-success branch
errorMessage(body) ==
    IF body.json
    THEN IF body.detail # "" THEN body.detail
         ELSE "Failed to apply color transparency"
    ELSE "Server error: Failed to apply color transparency"

\* an outer catch block that rejects with one message for every failure
rejectionGeneric(isTypeError, message) == "Failed to apply color transparency"

\* the outer catch block: the message the returned promise rejects with
rejection(isTypeError, message) ==
    IF isTypeError /\ message = "Failed to fetch"
    THEN "Server connection failed. Please make sure the server is running on http://localhost:8000"
    ELSE IF message # "" THEN message
         ELSE "Failed to apply color transparency"

\* the call rejects: kind is the kind of the failure
Reject(kind, isTypeError, message) ==
    /\ tr' = [pc |-> "idle", message |-> rejection(isTypeError, message)]
    /\ rejections' = rejections \cup {<<kind, tr'.message>>}

\* applyColorTransparency up to the fetch of the image
applyColorTransparency ==
    /\ variant = "service"
    /\ tr.pc = "idle"
    /\ nReq < MaxCalls
    /\ nReq' = nReq + 1
    /\ tr' = [pc |-> "image", message |-> ""]
    /\ undoFound' = -1
    /\ settled' = NoAnswer
    /\ UNCHANGED <<canvas, urls, rejections, sampling, api, cart, variant, replaced,
                   previousDesigns, isLoadingHistory, procLimit, mounted,
                   isGenerating, error, isLoading, isPickingColor,
                   designTexture, designHistory, designTransform,
                   selectedColor, taskId, gen, nGen, remote>>

\* the fetch of the image settles: the image, a non-success status, or no
\* answer; on success the POST /color_transparency request is sent
imageFetched(outcome) ==
    /\ variant = "service"
    /\ tr.pc = "image"
    /\ CASE outcome = "ok" ->
              /\ tr' = [tr EXCEPT !.pc = "post"]
              /\ UNCHANGED rejections
         [] outcome = "notOk" ->
              Reject("image", FALSE, "Failed to fetch image")
         [] OTHER -> Reject("image", TRUE, outcome)
    /\ undoFound' = -1
    /\ settled' = NoAnswer
    /\ UNCHANGED <<canvas, urls, sampling, api, cart, variant, replaced, previousDesigns,
                   isLoadingHistory, procLimit, mounted, isGenerating, error,
                   isLoading, isPickingColor, designTexture, designHistory,
                   designTransform, selectedColor, taskId, gen, nGen, remote,
                   nReq>>

\* the POST /color_transparency request settles: the processed image, for
\* which a blob URL is created and returned, a non-success status, or no
\* answer
colorTransparencyAnswered(outcome) ==
    /\ variant = "service"
    /\ tr.pc = "post"
    /\ CASE outcome = "ok" ->
              /\ tr' = [tr EXCEPT !.pc = "idle"]
              /\ created' = created \cup {BlobUrl(nReq)}
              /\ UNCHANGED rejections
         [] outcome = "notOk" ->
              /\ tr' = [tr EXCEPT !.pc = "text"]
              /\ UNCHANGED <<rejections, created>>
         [] OTHER -> /\ Reject("unreachable", TRUE, outcome)
                     /\ UNCHANGED created
    /\ undoFound' = -1
    /\ settled' = NoAnswer
    /\ UNCHANGED <<canvas, revoked, currentObjectUrl, sampling, api, cart, variant, replaced,
                   previousDesigns, isLoadingHistory, procLimit, mounted,
                   isGenerating, error, isLoading, isPickingColor,
                   designTexture, designHistory, designTransform,
                   selectedColor, taskId, gen, nGen, remote, nReq>>

\* response.text() of the non-success answer settles
errorTextRead(body) ==
    /\ variant = "service"
    /\ tr.pc = "text"
    /\ Reject(IF body.json THEN "detail" ELSE "unparsable", FALSE,
              errorMessage(body))
    /\ undoFound' = -1
    /\ settled' = NoAnswer
    /\ UNCHANGED <<canvas, urls, sampling, api, cart, variant, replaced, previousDesigns,
                   isLoadingHistory, procLimit, mounted, isGenerating, error,
                   isLoading, isPickingColor, designTexture, designHistory,
                   designTransform, selectedColor, taskId, gen, nGen, remote,
                   nReq>>

\* calls of applyColorTransparency, one at a time
InitTransparency == InitWith("service", MaxProcessing)

NextTransparency ==
    \/ applyColorTransparency
    \/ \E outcome \in {"ok", "notOk"} \cup FetchErrors : imageFetched(outcome)
    \/ \E outcome \in {"ok", "notOk"} \cup FetchErrors :
          colorTransparencyAnswered(outcome)
    \/ \E body \in Bodies : errorTextRead(body)

SpecTransparency == InitTransparency /\ [][NextTransparency]_vars

\* ------------------------------------------- the colour-pick samplers
\* ctx.getImageData(ix, iy, 1, 1) on a canvas the image was drawn to at its
\* natural size: every pixel of the image has a colour of its own, written
\* <<ix, iy>>; outside the canvas the data is transparent black, which the
\* handlers format as '#000000'
Pixel(natural, ix, iy) ==
    IF ix \in 0..(natural.width - 1) /\ iy \in 0..(natural.height - 1)
    THEN <<ix, iy>>
    ELSE "#000000"

\* Math.floor(x * scaleX) with scaleX = img.naturalWidth / rect.width
actual(p, natural, displayed) == (p * natural) \div displayed

\* handleImageColorPick and handleImageMouseMove of DraggableDesign read
\* the pixel under the pointer
pickFromImage ==
    /\ variant = "sampler"
    /\ sampling.component = "DraggableDesign"
    /\ ~sampling.done
    /\ LET ix == actual(sampling.x, sampling.natural.width,
                        sampling.rect.width)
           iy == actual(sampling.y, sampling.natural.height,
                        sampling.rect.height) IN
       sampling' = [sampling EXCEPT !.done = TRUE, !.actualX = ix,
                                    !.actualY = iy,
                                    !.color = Pixel(sampling.natural, ix, iy)]
    /\ undoFound' = -1
    /\ settled' = NoAnswer
    /\ UNCHANGED <<canvas, urls, service, api, cart, variant, replaced,
                   previousDesigns, isLoadingHistory, procLimit, mounted,
                   isGenerating, error, isLoading, isPickingColor,
                   designTexture, designHistory, designTransform,
                   selectedColor, taskId, gen, nGen, remote, nReq>>

\* handleColorPick of the page reads the pixel: x and y are taken from the
\* rectangle of designRef, and getImageData truncates x * scaleX
pickFromPage ==
    /\ variant = "sampler"
    /\ sampling.component = "page"
    /\ ~sampling.done
    /\ LET ix == actual(sampling.box.left + sampling.x,
                        sampling.natural.width, sampling.rect.width)
           iy == actual(sampling.box.top + sampling.y,
                        sampling.natural.height, sampling.rect.height) IN
       sampling' = [sampling EXCEPT !.done = TRUE, !.actualX = ix,
                                    !.actualY = iy,
                                    !.color = Pixel(sampling.natural, ix, iy)]
    /\ undoFound' = -1
    /\ settled' = NoAnswer
    /\ UNCHANGED <<canvas, urls, service, api, cart, variant, replaced,
                   previousDesigns, isLoadingHistory, procLimit, mounted,
                   isGenerating, error, isLoading, isPickingColor,
                   designTexture, designHistory, designTransform,
                   selectedColor, taskId, gen, nGen, remote, nReq>>

InitSampler == InitWith("sampler", MaxProcessing)

NextSampler ==
    \/ pickFromImage
    \/ pickFromPage

SpecSampler == InitSampler /\ [][NextSampler]_vars

\* --------------------------------- the functions of api.ts called alone
\* loadPreviousDesigns as api.ts has it in its three versions: part_005
\* (27-41), api.ts (228-246) and the proxy of part_006 (38-52) over
\* DesignService.loadPreviousDesigns, which answers [] instead of rejecting
LoadImpls == {"part_005", "api.ts", "part_006"}

\* finally { setIsLoadingHistory(false) } with a mutant that skips it once
\* the catch block has run; caught tells whether the catch block has run
finallyLoadingUnlessCaught(call, caught) ==
    [call EXCEPT !.pc = "done",
                 !.flags = IF caught THEN @ ELSE Append(@, FALSE)]

finallyLoading(call, caught) ==
    [call EXCEPT !.pc = "done", !.flags = Append(@, FALSE)]

\* the call up to its first await: setIsLoadingHistory(true), then the
\* request
loadPreviousDesignsCalled(impl) ==
    /\ variant = "api"
    /\ loadCall.pc \in {"idle", "done"}
    /\ loadCall' = [impl |-> impl, pc |-> "fetch", flags |-> <<TRUE>>,
                    designs |-> <<>>]
    /\ isLoadingHistory' = SetState(isLoadingHistory, TRUE)
    /\ undoFound' = -1
    /\ settled' = NoAnswer
    /\ UNCHANGED <<canvas, urls, service, sampling, healthCall, cart, variant,
                   replaced, previousDesigns, procLimit, mounted,
                   isGenerating, error, isLoading, isPickingColor,
                   designTexture, designHistory, designTransform,
                   selectedColor, taskId, gen, nGen, remote, nReq>>

\* the request settles: outcome is "ok" (response.ok), "notOk" or
\* "rejected" (the server was not reached)
previousDesignsFetched(outcome) ==
    /\ variant = "api"
    /\ loadCall.pc = "fetch"
    /\ LET designs == IF outcome = "ok" THEN <<GalleryImage>> ELSE <<>>
           \* the catch block runs: fetch has rejected, or api.ts has
           \* thrown for an answer that is not ok (the proxy's request
           \* never rejects)
           caught == \/ loadCall.impl # "part_006" /\ outcome = "rejected"
                     \/ loadCall.impl = "api.ts" /\ outcome = "notOk"
           \* setPreviousDesigns is called: by the proxy with what
           \* loadDesigns answered, by the catch block of api.ts with []
           sets == \/ loadCall.impl = "part_006"
                   \/ loadCall.impl = "api.ts" /\ caught
       IN IF loadCall.impl # "part_006" /\ outcome = "ok"
          THEN \* await response.json()
               /\ loadCall' = [loadCall EXCEPT !.pc = "json"]
               /\ UNCHANGED <<previousDesigns, isLoadingHistory>>
          ELSE /\ loadCall' =
                    finallyLoading(
                       [loadCall EXCEPT
                          !.designs = IF sets THEN Append(@, designs) ELSE @],
                       caught)
               /\ previousDesigns' = IF sets
                                     THEN SetState(previousDesigns, designs)
                                     ELSE previousDesigns
               /\ isLoadingHistory' =
                     SetState(isLoadingHistory,
                              loadCall'.flags[Len(loadCall'.flags)])
    /\ undoFound' = -1
    /\ settled' = NoAnswer
    /\ UNCHANGED <<canvas, urls, service, sampling, healthCall, cart, variant,
                   replaced, procLimit, mounted, isGenerating, error,
                   isLoading, isPickingColor, designTexture, designHistory,
                   designTransform, selectedColor, taskId, gen, nGen, remote,
                   nReq>>

\* response.json() settles: parsed, or rejected because the body is not
\* JSON
previousDesignsParsed(parsed) ==
    /\ variant = "api"
    /\ loadCall.pc = "json"
    /\ LET designs == IF parsed THEN <<GalleryImage>> ELSE <<>>
           caught == ~parsed
           sets == parsed \/ loadCall.impl = "api.ts"
       IN /\ loadCall' =
               finallyLoading(
                  [loadCall EXCEPT
                     !.designs = IF sets THEN Append(@, designs) ELSE @],
                  caught)
          /\ previousDesigns' = IF sets
                                THEN SetState(previousDesigns, designs)
                                ELSE previousDesigns
          /\ isLoadingHistory' =
                SetState(isLoadingHistory,
                         loadCall'.flags[Len(loadCall'.flags)])
    /\ undoFound' = -1
    /\ settled' = NoAnswer
    /\ UNCHANGED <<canvas, urls, service, sampling, healthCall, cart, variant,
                   replaced, procLimit, mounted, isGenerating, error,
                   isLoading, isPickingColor, designTexture, designHistory,
                   designTransform, selectedColor, taskId, gen, nGen, remote,
                   nReq>>

\* checkLocalServer in its two versions: part_005 (14-25) asks with fetch,
\* the proxy of part_006 (25-36) asks DesignService.checkHealth, which asks
\* apiService.get (the DesignService that has the loadPreviousDesigns the
\* proxy needs is the second one of designService.ts, 180-188)
HealthImpls == {"part_005", "part_006"}

\* what the server answers GET / or GET /health with: a status, 0 when it
\* is not reached
HealthStatuses == {200, 500, 404, 0}

\* the catch block of checkLocalServer, with a mutant that throws the error
\* on to the caller
checkLocalServerCaughtRethrown(call) ==
    [call EXCEPT !.pc = "done", !.threw = TRUE]

checkLocalServerCaught(call) ==
    [call EXCEPT !.pc = "done",
                 !.logged = Append(@, "API is not available")]

\* the call up to its await
checkLocalServer(impl) ==
    /\ variant = "api"
    /\ healthCall.pc \in {"idle", "done"}
    /\ healthCall' = [IdleHealth EXCEPT !.impl = impl, !.pc = "request",
                                        !.requests = 1,
                                        !.retries = MAX_RETRIES]
    /\ undoFound' = -1
    /\ settled' = NoAnswer
    /\ UNCHANGED <<canvas, urls, service, sampling, loadCall, cart, variant,
                   replaced, previousDesigns, isLoadingHistory, procLimit,
                   mounted, isGenerating, error, isLoading, isPickingColor,
                   designTexture, designHistory, designTransform,
                   selectedColor, taskId, gen, nGen, remote, nReq>>

\* the request is answered with status
healthAnswered(status) ==
    /\ variant = "api"
    /\ healthCall.pc = "request"
    /\ LET answered == [healthCall EXCEPT !.status = status]
           log(text) == [answered EXCEPT !.pc = "done",
                                          !.logged = Append(@, text)]
       IN healthCall' =
            IF healthCall.impl = "part_005"
            THEN \* fetch rejects when the server is not reached and
                 \* resolves for every status; response.ok is 200-299
                 IF status = 0 THEN checkLocalServerCaught(answered)
                 ELSE IF status = 200 THEN log("API is available")
                 ELSE log("API is not available")
            ELSE \* apiService.get inside retryRequest; checkHealth turns
                 \* the error that is left into false
                 IF status = 200 THEN log("API is available")
                 ELSE IF retryRequest(healthCall.retries,
                                      handleError([status |-> status]))
                 THEN [healthCall EXCEPT !.retries = @ - 1,
                                         !.requests = @ + 1]
                 ELSE log("API is not available")
    /\ undoFound' = -1
    /\ settled' = NoAnswer
    /\ UNCHANGED <<canvas, urls, service, sampling, loadCall, cart, variant,
                   replaced, previousDesigns, isLoadingHistory, procLimit,
                   mounted, isGenerating, error, isLoading, isPickingColor,
                   designTexture, designHistory, designTransform,
                   selectedColor, taskId, gen, nGen, remote, nReq>>

InitApi == InitWith("api", MaxProcessing)

NextApi ==
    \/ \E impl \in LoadImpls : loadPreviousDesignsCalled(impl)
    \/ \E outcome \in {"ok", "notOk", "rejected"} :
          previousDesignsFetched(outcome)
    \/ \E parsed \in BOOLEAN : previousDesignsParsed(parsed)
    \/ \E impl \in HealthImpls : checkLocalServer(impl)
    \/ \E status \in HealthStatuses : healthAnswered(status)
    \/ unmount

SpecApi == InitApi /\ [][NextApi]_vars


\* --------------------------------------------------------- the cart
\* CartContext.tsx 5-71
MaxItems == 2        \* lines of the cart
MaxQuantity == 3     \* quantity of one line
MaxTotal == 150      \* total of the cart

\* products (id and price) and the lines a page can add
Products == {[id |-> 1, price |-> 10], [id |-> 2, price |-> 25]}

CartItems ==
    {[product |-> p, size |-> s, color |-> "#ffffff", quantity |-> q] :
        p \in Products, s \in {"M", "L"}, q \in 1..2}

\* the actions dispatched to the reducer
CartActions ==
    {[type |-> "ADD_TO_CART", payload |-> i] : i \in CartItems}
    \cup {[type |-> "REMOVE_FROM_CART", payload |-> p.id] : p \in Products}
    \cup {[type |-> "UPDATE_QUANTITY",
           payload |-> [productId |-> p.id, quantity |-> q]] :
             p \in Products, q \in 1..MaxQuantity}
    \cup {[type |-> "CLEAR_CART"]}

\* Array.prototype.findIndex over the indexes that pass the test: the
\* first of them, 0 when there is none (findIndex answers -1)
findIndex(passing) ==
    IF passing = {} THEN 0
    ELSE CHOOSE k \in passing : \A j \in passing : k <= j

cartReducer(state, action) ==
    CASE action.type = "ADD_TO_CART" ->
           LET existingItemIndex ==
                 findIndex({k \in 1..Len(state.items) :
                              /\ state.items[k].product.id
                                    = action.payload.product.id
                              /\ state.items[k].size = action.payload.size
                              /\ state.items[k].color = action.payload.color})
               total == state.total
                          + action.payload.product.price
                              * action.payload.quantity
           IN IF existingItemIndex > 0
              THEN [items |-> [state.items EXCEPT
                                 ![existingItemIndex].quantity =
                                     @ + action.payload.quantity],
                    total |-> total]
              ELSE [items |-> Append(state.items, action.payload),
                    total |-> total]
      [] action.type = "REMOVE_FROM_CART" ->
           LET found == findIndex({k \in 1..Len(state.items) :
                                     state.items[k].product.id
                                        = action.payload})
               kept(item) == item.product.id # action.payload
           IN IF found = 0 THEN state
              ELSE [items |-> SelectSeq(state.items, kept),
                    total |-> state.total
                                - state.items[found].product.price
                                    * state.items[found].quantity]
      [] action.type = "UPDATE_QUANTITY" ->
           LET itemIndex == findIndex({k \in 1..Len(state.items) :
                                         state.items[k].product.id
                                            = action.payload.productId})
           IN IF itemIndex = 0 THEN state
              ELSE [items |-> [state.items EXCEPT
                                 ![itemIndex].quantity =
                                     action.payload.quantity],
                    total |-> state.total
                                + state.items[itemIndex].product.price
                                    * (action.payload.quantity
                                         - state.items[itemIndex].quantity)]
      [] action.type = "CLEAR_CART" -> initialState
      [] OTHER -> state

\* dispatch(action) of useReducer, while the cart stays within the bounds
dispatch(action) ==
    /\ variant = "cart"
    /\ cart' = cartReducer(cart, action)
    /\ Len(cart'.items) <= MaxItems
    /\ \A k \in 1..Len(cart'.items) : cart'.items[k].quantity <= MaxQuantity
    /\ cart'.total <= MaxTotal
    /\ undoFound' = -1
    /\ settled' = NoAnswer
    /\ UNCHANGED <<canvas, urls, service, sampling, api, variant, replaced,
                   previousDesigns, isLoadingHistory, procLimit, mounted,
                   isGenerating, error, isLoading, isPickingColor,
                   designTexture, designHistory, designTransform,
                   selectedColor, taskId, gen, nGen, remote, nReq>>

InitCart == InitWith("cart", MaxProcessing)

NextCart == \E action \in CartActions : dispatch(action)

SpecCart == InitCart /\ [][NextCart]_vars


\* ------------------------------------------------------------ properties
\* the largest number of status requests of one poll loop
maxStatusRequests == IF variant = "controller" THEN maxRetries ELSE maxAttempts

\* C1: once a later prompt has been submitted, no step of an earlier
\* generation call changes the current image, the history or the transform
OnlyLatestPromptCommits ==
    [][\A i \in Loops :
         (i < nGen /\ gen'[i] # gen[i]) => image' = image]_vars

\* C2: two remote-processing requests (background removal, transparency) are
\* never in flight at the same time
OneRemoteRequestInFlight == Cardinality(remote) <= 1

\* C3: the step in which a generation call ends failed or timed out surfaces
\* an error and changes neither image, history nor transform, and the call
\* has not changed them before
FailureLeavesImage ==
    [][\A i \in Loops :
         (/\ gen[i].pc # "done"
          /\ gen'[i].pc = "done"
          /\ gen'[i].outcomes \cap {"failed", "timeout"} # {}
          /\ mounted)
         => /\ Truthy(error')
            /\ image' = image
            /\ ~gen[i].touched]_vars

\* C4: when every generation call has ended, isGenerating is false
IdleAfterGeneration ==
    (mounted /\ nGen > 0 /\ \A i \in Loops : gen[i].pc \in {"idle", "done"})
        => ~isGenerating

\* C5: a poll loop sends at most maxStatusRequests status requests; every
\* answer either ends the polling or uses up one attempt; a loop that has
\* returned ended in exactly one of completed, failed and timed out; and it
\* ends timed out only after it sent all maxStatusRequests requests
PollLoopBounded ==
    /\ [](\A i \in Loops :
            /\ gen[i].requests <= maxStatusRequests
            /\ gen[i].pc = "poll" => /\ gen[i].retries < maxStatusRequests
                                     /\ gen[i].requests = gen[i].retries + 1
            /\ gen[i].pc = "done" => Cardinality(gen[i].outcomes) = 1)
    /\ [][\A i \in Loops :
            /\ (gen[i].pc = "poll" /\ gen'[i] # gen[i])
                   => \/ gen'[i].pc # "poll"
                      \/ gen'[i].retries = gen[i].retries + 1
            /\ (gen[i].pc # "done" /\ gen'[i].pc = "done"
                  /\ "timeout" \in gen'[i].outcomes)
                   => /\ gen[i].pc = "poll"
                      /\ gen[i].requests = maxStatusRequests]_vars

\* C5 witness: a poll loop has ended timed out
PollLoopTimedOut ==
    \E i \in Loops : gen[i].pc = "done" /\ gen[i].outcomes = {"timeout"}

\* C6: a loop that has seen 'completed' or 'failed' for its job sends no
\* further status request
TerminalStopsPolling ==
    \A i \in Loops : gen[i].terminalSeen => gen[i].pc # "poll"

\* C7: after the unmount a loop that is polling sends no further status
\* request, and image, history and error stay as they are
UnmountStopsPolling ==
    [][~mounted =>
         /\ \A i \in Loops :
               gen[i].pc = "poll" => gen'[i].requests <= gen[i].requests
         /\ designTexture' = designTexture
         /\ designHistory' = designHistory
         /\ error' = error]_vars

\* C8: the step that commits a completed job makes the job's image current
\* and pushes the image that was current immediately before, if there was one
CompletionPushesCurrent ==
    [][\A i \in Loops :
         (gen[i].pc = "load" /\ gen'[i].pc = "save" /\ mounted)
         => /\ designTexture' = gen[i].img
            /\ designHistory' = IF designTexture # Null
                                THEN Append(designHistory, designTexture)
                                ELSE designHistory]_vars

\* C9: handleUndo called with an empty history changes neither the current
\* image, the history nor the transform
UndoEmptyIsNoOp == [][undoFound' = 0 => image' = image]_vars

\* C9 witness: handleUndo has run on an empty history while an image was
\* current and the transform was not the initial one
UndoneOnEmptyHistory ==
    /\ undoFound = 0
    /\ designTexture # Null
    /\ designTransform # initialTransform

\* C10: handleUndo called with a non-empty history makes the newest entry
\* current, removes exactly that entry and keeps the transform, and, while
\* replaced images are left to restore, the image it makes current is the
\* one that the latest replacement not yet undone had replaced
UndoRestoresReplaced ==
    [][/\ undoFound' > 0 =>
            /\ designTexture' = designHistory[Len(designHistory)]
            /\ designHistory' = SubSeq(designHistory, 1,
                                       Len(designHistory) - 1)
            /\ designTransform' = designTransform
       /\ (undoFound' >= 0 /\ Len(replaced) > 0) =>
            designTexture' = replaced[Len(replaced)]]_vars

\* C10, the pop alone: handleUndo called with a non-empty history makes the
\* newest entry current, removes exactly that entry, pushes nothing and
\* keeps the transform
UndoPopsNewest ==
    [][undoFound' > 0 =>
         /\ designTexture' = designHistory[Len(designHistory)]
         /\ designHistory' = SubSeq(designHistory, 1, Len(designHistory) - 1)
         /\ designTransform' = designTransform]_vars

\* C11: the step in which a crop with a non-empty region is applied pushes
\* the image that was current onto the history, makes a newly created
\* cropped image current and leaves crop mode
CropPushesAndExits ==
    [][(settled'.kind = "crop" /\ settled'.ok)
       => /\ designHistory' = Append(designHistory, designTexture)
          /\ designTexture' \in created' \ created
          /\ ~isCropping']_vars

\* C12: the step in which a crop with an empty region (width or height zero)
\* is applied leaves the current image and the history as they are and
\* leaves crop mode
EmptyCropExits ==
    [][(settled'.kind = "crop" /\ ~settled'.ok)
       => /\ designTexture' = designTexture
          /\ designHistory' = designHistory
          /\ ~isCropping']_vars

\* C13: the step that delivers a successful background removal makes the
\* returned image current, sets hasBackground to false and pushes the image
\* that was current onto the history
RemovalReplacesAndPushes ==
    [][(settled'.kind = "bg" /\ settled'.ok /\ mounted)
       => /\ designTexture' \in {ProcessedImage(r) : r \in 1..MaxRemote}
                                  \cup {BlobUrl(r) : r \in 1..MaxRemote}
          /\ ~designTransform'.hasBackground
          /\ designHistory' = Append(designHistory, designTexture)]_vars

\* C14: the step that delivers the failure of a background-removal or a
\* transparency request sets an error message and isLoading to false and
\* changes neither the current image, the history nor the transform
FailedRequestIsNoOp ==
    [][(settled'.kind \in {"bg", "tr"} /\ ~settled'.ok /\ mounted)
       => /\ Truthy(error')
          /\ ~isLoading'
          /\ image' = image]_vars

\* C14 witness: a transparency request for the current image has just been
\* answered with a non-success status
TransparencyRequestFailed ==
    /\ settled.kind = "tr"
    /\ ~settled.ok
    /\ settled.reached
    /\ mounted
    /\ designTexture # Null
    /\ Truthy(error)
    /\ ~isLoading

\* C15: at most one of the modes Dragging, Cropping and PickingColor is
\* active
AtMostOneMode ==
    /\ ~(isDragging /\ isCropping)
    /\ ~(isDragging /\ isPickingColor)
    /\ ~(isCropping /\ isPickingColor)

\* width and height of the design as it is drawn
boxWidth == scaledSize(designSize.width, designTransform.scale)

boxHeight == scaledSize(designSize.height, designTransform.scale)

\* the scaled bounding box of the design lies inside the box it is dragged
\* in: position.x - boxWidth / 2 >= 0, position.x + boxWidth / 2 <= width,
\* and likewise for y
BoxInside ==
    /\ 2 * designTransform.position.x - boxWidth >= 0
    /\ 2 * designTransform.position.x + boxWidth <= 2 * containerRect.width
    /\ 2 * designTransform.position.y - boxHeight >= 0
    /\ 2 * designTransform.position.y + boxHeight <= 2 * containerRect.height

\* the design as it is drawn is not larger than the box it is dragged in
BoxFits ==
    /\ boxWidth <= containerRect.width
    /\ boxHeight <= containerRect.height

\* C16: the position a drag move produces keeps the scaled bounding box of
\* the design inside the container, for every scale in (0, 3] and every
\* size of the container and of the design
DragKeepsBoxInside == [][settled'.kind = "move" => BoxInside']_vars

\* C16, amended: the position a drag move produces keeps the scaled bounding
\* box of the design inside the container whenever the scaled design is not
\* larger than the container
DragKeepsFittingBoxInside ==
    [][(settled'.kind = "move" /\ BoxFits) => BoxInside']_vars

\* C16 witness: a drag move has stopped a design that is smaller than the
\* container at the left and at the top edge
DraggedIntoCorner ==
    /\ settled.kind = "move"
    /\ boxWidth > 0
    /\ boxWidth < containerRect.width
    /\ boxHeight < containerRect.height
    /\ 2 * designTransform.position.x = boxWidth
    /\ 2 * designTransform.position.y = boxHeight

\* C17: whenever a design is loaded, its scaled bounding box lies inside the
\* container
LoadedBoxInside ==
    (designTexture # Null /\ designSize.width > 0) => BoxInside

\* C18: after every step that replaces the current image, every blob URL
\* that was created and is neither the current image nor an entry of the
\* history has been revoked
UnreachableUrlsRevoked ==
    [][designTexture' # designTexture
       => \A url \in created' :
            \/ url = designTexture'
            \/ \E k \in 1..Len(designHistory') : designHistory'[k] = url
            \/ url \in revoked']_vars

\* C19: the step that delivers a non-success answer of the transparency
\* service with the body {detail: d} sets the error message to exactly d and
\* leaves the current image as it is
ErrorIsServiceDetail ==
    [][(settled'.kind = "tr" /\ ~settled'.ok /\ settled'.reached /\ mounted)
       => /\ error' = settled'.detail
          /\ designTexture' = designTexture]_vars

\* the failures the service function has to tell apart
FailureKinds == {"unreachable", "unparsable", "detail"}

\* C20: applyColorTransparency rejects failures of different kinds (service
\* not reached, non-success status with a body that is not JSON, non-success
\* status with a JSON body {detail}) with different messages
FailureKindsDistinct ==
    \A p \in rejections, q \in rejections :
        (p[1] \in FailureKinds /\ q[1] \in FailureKinds /\ p[1] # q[1])
            => p[2] # q[2]

\* C20 witness: calls of applyColorTransparency have been rejected for each
\* of the three kinds of failure
AllFailureKindsRejected ==
    \A k \in FailureKinds : \E p \in rejections : p[1] = k

HistoryCallsNeverBlock ==
    [][/\ \A i \in Loops :
            (gen[i].pc = "save" /\ gen'[i].pc = "done" /\ mounted)
            => /\ error' = error
               /\ designTexture' = JobImage(gen[i].job)
               /\ designTransform' = initialTransform
               /\ \E k \in 1..Len(previousDesigns') :
                     previousDesigns'[k] = JobImage(gen[i].job)
               /\ ~isGenerating'
       /\ (isLoadingHistory /\ ~isLoadingHistory' /\ mounted)
            => error' = error]_vars

\* C23: the step that delivers a successful background removal keeps the
\* position, the scale and the rotation that the transform has when the
\* answer arrives
RemovalKeepsPlacement ==
    [][(settled'.kind = "bg" /\ settled'.ok /\ mounted)
       => /\ designTransform'.position = designTransform.position
          /\ designTransform'.scale = designTransform.scale
          /\ designTransform'.rotation = designTransform.rotation]_vars

\* C24: the Reset step sets the scale to 1, the rotation to 0 and the
\* position to the centre of the container and leaves the history and the
\* current image as they are
ResetCentres ==
    [][settled'.kind = "reset"
       => /\ designTransform'.scale = 100
          /\ designTransform'.rotation = 0
          /\ 2 * designTransform'.position.x = containerRect.width
          /\ 2 * designTransform'.position.y = containerRect.height
          /\ designHistory' = designHistory
          /\ designTexture' = designTexture]_vars

SampledIndicesInRange ==
    (/\ sampling.done
     /\ sampling.component = "DraggableDesign"
     /\ sampling.x \in 0..sampling.rect.width
     /\ sampling.y \in 0..sampling.rect.height)
    => /\ sampling.actualX \in 0..(sampling.natural.width - 1)
       /\ sampling.actualY \in 0..(sampling.natural.height - 1)

\* C27: sampling at the point (x, y) of the image as it is shown, inside the
\* image, returns the colour of the native pixel
\* (floor(x * naturalWidth / displayedWidth),
\*  floor(y * naturalHeight / displayedHeight)); for the 4 x 4 image shown
\* larger this includes the four corner pixels
SampleIsNativePixel ==
    (/\ sampling.done
     /\ sampling.x < sampling.box.width
     /\ sampling.y < sampling.box.height)
    => sampling.color =
          Pixel(sampling.natural,
                (sampling.x * sampling.natural.width)
                    \div sampling.box.width,
                (sampling.y * sampling.natural.height)
                    \div sampling.box.height)

\* C28: the step in which the design image finishes loading sets the
\* position to the centre of the container when the stored position is
\* (0, 0) and leaves the position as it is otherwise
LoadCentresSentinel ==
    [][(imgOnload # <<>> /\ imgOnload' = <<>>)
       => IF designTransform.position = [x |-> 0, y |-> 0]
          THEN /\ 2 * designTransform'.position.x = containerRect.width
               /\ 2 * designTransform'.position.y = containerRect.height
          ELSE designTransform'.position = designTransform.position]_vars

\* C29: in every reachable state the scale is greater than 0 and lies within
\* [0.1, 3.0] (10 to 300 percent)
ScaleInRange ==
    /\ designTransform.scale > 0
    /\ designTransform.scale >= 10
    /\ designTransform.scale <= 300

\* C30: a step in which an action succeeds (a generation completes, a
\* background removal or a transparency request is answered with success,
\* an undo pops an entry, a colour is picked) leaves no error message set;
\* the page never applies a crop (C11), so no step counts as a crop that
\* succeeded
SuccessClearsError ==
    [][(/\ mounted
        /\ \/ settled'.kind = "pick"
           \/ settled'.kind \in {"bg", "tr"} /\ settled'.ok
           \/ undoFound' > 0
           \/ \E i \in Loops : /\ gen[i].pc # "done"
                               /\ gen'[i].pc = "done"
                               /\ gen'[i].outcomes = {"completed"})
       => ~Truthy(error')]_vars

\* C31: a call of loadPreviousDesigns passes true to the loading setter
\* before the request and false after it, once each and in that order,
\* whether the load succeeds or fails: while the request or the parsing of
\* its answer is awaited the setter has been called with true only, and once
\* the call has returned it has been called with true and then false
LoadingSetOnceEach ==
    /\ loadCall.pc \in {"fetch", "json"} => loadCall.flags = <<TRUE>>
    /\ loadCall.pc = "done" => loadCall.flags = <<TRUE, FALSE>>

\* C31, witness: a load of api.ts that failed has returned
FailedLoadReturned ==
    /\ loadCall.pc = "done"
    /\ loadCall.impl = "api.ts"
    /\ loadCall.designs = << <<>> >>

ServerFailuresRetried ==
    (healthCall.pc = "done" /\ healthCall.impl = "part_006")
       => /\ healthCall.status \in {0, 500}
                => healthCall.requests = MAX_RETRIES + 1
          /\ healthCall.status = 404 => healthCall.requests = 1

\* C35: on the mounted controller page isLoading is true in every state in
\* which a background-removal or transparency request is in flight
LoadingWhileInFlight ==
    (variant = "controller" /\ mounted /\ remote # {}) => isLoading

\* C36: the answer to a transparency request never replaces the result of a
\* request that was issued after it: while the current image is the result
\* of request j, the step that settles an earlier request leaves the current
\* image as it is
StaleAnswerIgnored ==
    [][variant = "controller"
       => \A q \in remote \ remote' :
            \A j \in (q.id + 1)..MaxRemote :
               designTexture = BlobUrl(j) => designTexture' = designTexture]_vars

\* C37: the transparency request that a colour pick sends carries the colour
\* that the pick has just stored as the selected colour
PickSendsPickedColor ==
    [][(variant = "controller" /\ isPickingColor /\ ~isPickingColor'
          /\ nReq' = nReq + 1)
       => \A q \in remote' \ remote : q.color = selectedColor']_vars

RECURSIVE SumOfLines(_)
SumOfLines(items) ==
    IF items = <<>> THEN 0
    ELSE Head(items).product.price * Head(items).quantity
            + SumOfLines(Tail(items))

\* C39: after any sequence of cart actions the total of the cart is the sum
\* of price times quantity over the items in the cart
TotalIsSumOfLines == cart.total = SumOfLines(cart.items)
====
